---- MODULE Spec2Model ----
(***************************************************************************)
(* mkimg: the workspace lifecycle (init / info / summary / build / clean / *)
(* destroy) of src/mkimg.py as a state machine over the managed paths of   *)
(* the working directory.  Every verb is a sequence of steps; a step is    *)
(* one external command or one filesystem mutation of the code, so that    *)
(* the states between two steps are the states an interrupted or aborted   *)
(* invocation leaves behind.                                               *)
(***************************************************************************)
EXTENDS Integers, Sequences, FiniteSets, TLC

\* Number of build identities gen_cid hands out in one behaviour.
MaxBuilds == 2

\* The mkimg processes the operator has at hand.
Procs == {"p1", "p2"}
Ids == 1..MaxBuilds

\* src/mkimg.py:43, in the order the loop visits them.
apps == <<"btrfs", "mkosi", "zstd", "gzip">>
Apps == {apps[i] : i \in 1..Len(apps)}
\* src/mkimg.py:228 and :177.
mydirs == <<"streams", "services", "buildroot">>
\* src/mkimg.py:178 (init writes the same three paths, lines 270-285).
myfiles == <<"mkosi.default", "mkosi.rootpw", ".init.lock">>

VARIABLES
    lock,       \* .init.lock exists
    buildDir,   \* build/ exists
    dirs,       \* which of streams, services, buildroot exist
    files,      \* which of mkosi.default, mkosi.rootpw exist
    vols,       \* build/<id>: kind, how far it is populated, its os-release BUILD_ID lines
    staging,    \* buildroot/image: present, and the BUILD_ID lines of its etc/os-release
    streams,    \* streams/<id>.sendstream.zst: "absent", "partial" or "complete"
    nextId,     \* the next fresh token of gen_cid
    proc        \* per process: position in the verb, locals, exit status

vars == <<lock, buildDir, dirs, files, vols, staging, streams, nextId, proc>>
fs == <<lock, buildDir, dirs, files, vols, staging, streams>>

NoObs == [seen |-> FALSE, bins |-> {}, onBtrfs |-> FALSE]
AbsentVol == [kind |-> "absent", fill |-> "empty", osrel |-> <<>>]
NoTree == [present |-> FALSE, osrel |-> <<>>]

\* The locals of a process that runs no verb.
IdleProc ==
    [pc |-> "idle", verb |-> "none", mycid |-> 0, idx |-> 0, todo |-> {},
     destroy |-> FALSE, gate |-> "none", pfObs |-> NoObs,
     exit |-> 0, err |-> "none", ran |-> {}, failed |-> {}]

Init ==
    /\ lock = FALSE
    /\ buildDir = FALSE
    /\ dirs = {}
    /\ files = {}
    /\ vols = [i \in Ids |-> AbsentVol]
    /\ staging = NoTree
    /\ streams = [i \in Ids |-> "absent"]
    /\ nextId = 1
    /\ proc = [p \in Procs |-> IdleProc]

----------------------------------------------------------------------------
\* Helpers on the process table.

\* The operator works in one shell, which runs one command at a time.
Shell == "p1"
Serial(p) == p = Shell

Set(p, r) == proc' = [proc EXCEPT ![p] = r]

\* sys.exit(code) after the message e; exit 0 is the normal return to the shell.
\* The locals of the process are gone with it; what it ran stays on record.
Exited(r, code, e) ==
    [IdleProc EXCEPT !.pc = "done", !.verb = r.verb, !.exit = code, !.err = e,
                     !.mycid = r.mycid, !.gate = r.gate, !.ran = r.ran,
                     !.failed = r.failed]

\* die(message): write the message, sys.exit(1).
die(r, e) == Exited(r, 1, e)

\* An exception no handler catches: traceback, exit status 1.
crash(r) == Exited(r, 1, "Traceback")

Started(v, first) == [IdleProc EXCEPT !.pc = first, !.verb = v]

Ran(r, what) == [r EXCEPT !.ran = @ \cup {what}]
Failed(r, what) == [r EXCEPT !.failed = @ \cup {what}]

\* The bookkeeping of one external command: it ran unless the binary could not
\* be executed, and it failed unless it exited with status 0.
Outcome(r, what, rc) ==
    CASE rc = "zero" -> Ran(r, what)
      [] rc = "nonzero" -> Failed(Ran(r, what), what)
      [] rc = "oserror" -> Failed(r, what)

\* check_init
check_init == lock

\* set_ownership(path): KeyError when SUDO_UID is not in the environment,
\* FileNotFoundError (an OSError) from os.chown when the path is missing.
\* The environment of a process does not change: where a verb calls it more
\* than once, the first call decides whether SUDO_UID is there.
set_ownership(exists, sudo) ==
    IF ~sudo THEN "KeyError" ELSE IF ~exists THEN "OSError" ELSE "ok"

\* Exit statuses a command run through subprocess can end with; "oserror" is
\* the OSError subprocess raises when the binary cannot be executed.
RunOutcomes == {"zero", "nonzero", "oserror"}

----------------------------------------------------------------------------
\* Preflight.

\* check_btrfs: returncode == 0 of `btrfs inspect-internal rootid .`
check_btrfs(onBtrfs) == onBtrfs

\* check_binaries: the loop assigns status once per app; the value returned is
\* the one the last iteration left.
RECURSIVE check_binaries_loop(_, _, _)
check_binaries_loop(present, i, status) ==
    IF i > Len(apps) THEN status
    ELSE check_binaries_loop(present, i + 1, apps[i] \in present)

check_binaries(present) == check_binaries_loop(present, 1, FALSE)

\* preflight_checks: checker = 0 iff both checks passed; die otherwise.
preflight_passes(present, onBtrfs) ==
    LET c1 == IF check_btrfs(onBtrfs) THEN 0 ELSE 1
        checker == IF check_binaries(present) THEN c1 ELSE 1
    IN checker = 0

\* preflight_checks has returned: its locals (bins) are gone.
Returned(r) == [r EXCEPT !.pfObs = NoObs]

PreflightPcs == {"i_preflight", "n_preflight", "s_preflight"}

AfterPreflight(v) ==
    CASE v = "init" -> "i_build"
      [] v = "info" -> "n_list"
      [] v = "summary" -> "s_mkosi"

\* preflight_checks() as called by init, info and summary.  The environment is
\* probed here: which binaries shutil.which resolves, and whether the working
\* directory is on btrfs.  subprocess.run raises FileNotFoundError in
\* check_btrfs when the btrfs binary itself is missing; nothing catches it.
Preflight(p) ==
    /\ proc[p].pc \in PreflightPcs
    /\ \E present \in SUBSET Apps, onBtrfs \in BOOLEAN :
         LET r == [proc[p] EXCEPT !.pfObs = [seen |-> TRUE, bins |-> present,
                                              onBtrfs |-> onBtrfs]]
         IN IF "btrfs" \notin present
            THEN Set(p, crash([r EXCEPT !.gate = "crashed"]))
            ELSE IF preflight_passes(present, onBtrfs)
            THEN Set(p, [r EXCEPT !.gate = "passed", !.pc = AfterPreflight(r.verb)])
            ELSE Set(p, die([r EXCEPT !.gate = "failed"], "PreflightFailed"))
    /\ UNCHANGED <<fs, nextId>>

----------------------------------------------------------------------------
\* init

\* init without the check_init test of line 231.
InvokeInitNoLockCheck(p) ==
    /\ proc[p].pc = "idle"
    /\ \E root \in BOOLEAN :
         LET r == Started("init", "i_preflight")
         IN IF ~root THEN Set(p, die(r, "PrivilegeRequired")) ELSE Set(p, r)
    /\ UNCHANGED <<fs, nextId>>

\* mkimg init: check_root, check_init, then on to preflight_checks.
InvokeInit(p) ==
    /\ proc[p].pc = "idle"
    /\ \E root \in BOOLEAN :
         LET r == Started("init", "i_preflight")
         IN IF ~root THEN Set(p, die(r, "PrivilegeRequired"))
            ELSE IF check_init THEN Set(p, die(r, "AlreadyInitialized"))
            ELSE Set(p, r)
    /\ UNCHANGED <<fs, nextId>>

\* init, lines 236-241: btrfs_do('build'), set_ownership('build').
\* `btrfs subvol create build` can only succeed when build/ does not exist;
\* its return code is not looked at.  The OSError of a missing binary ends in
\* die inside btrfs_do; set_ownership on a build/ that was not created raises
\* FileNotFoundError, which the handler of line 240 turns into die.
InitBuild(p) ==
    /\ proc[p].pc = "i_build"
    /\ \E rc \in RunOutcomes, sudo \in BOOLEAN :
         /\ rc = "zero" => ~buildDir
         /\ LET r == Outcome(Returned(proc[p]), "btrfs create build", rc)
                made == buildDir \/ rc = "zero"
                own == set_ownership(made, sudo)
            IN /\ buildDir' = made
               /\ Set(p, CASE rc = "oserror" -> die(r, "BtrfsError")
                           [] rc # "oserror" /\ own = "KeyError" -> crash(r)
                           [] rc # "oserror" /\ own = "OSError" -> die(r, "CreateFailed")
                           [] rc # "oserror" /\ own = "ok" ->
                                [r EXCEPT !.pc = "i_dirs", !.idx = 1])
    /\ UNCHANGED <<lock, dirs, files, vols, staging, streams, nextId>>

\* init, lines 243-249: one os.mkdir per iteration.  FileExistsError is
\* reported and the loop goes on; any other OSError is not caught.
InitDirs(p) ==
    /\ proc[p].pc = "i_dirs"
    /\ LET d == mydirs[proc[p].idx]
           next == IF proc[p].idx = Len(mydirs)
                   THEN [proc[p] EXCEPT !.pc = "i_default", !.idx = 0]
                   ELSE [proc[p] EXCEPT !.idx = @ + 1]
       IN IF d \in dirs
          THEN /\ Set(p, Failed(next, "mkdir " \o d))
               /\ UNCHANGED dirs
          ELSE \E ok \in BOOLEAN :
                 IF ok
                 THEN /\ dirs' = dirs \cup {d}
                      /\ Set(p, Ran(next, "mkdir " \o d))
                 ELSE /\ Set(p, crash(Failed(proc[p], "mkdir " \o d)))
                      /\ UNCHANGED dirs
    /\ UNCHANGED <<lock, buildDir, files, vols, staging, streams, nextId>>

\* init, lines 270-274 and 277-282: open(name, 'w'), write, set_ownership.
\* An OSError ends in die('Error in mkosi template file create').
InitWrite(p, at, name, then) ==
    /\ proc[p].pc = at
    /\ \E ok \in BOOLEAN :
         IF ok
         THEN /\ files' = files \cup {name}
              /\ Set(p, [Ran(proc[p], "write " \o name) EXCEPT !.pc = then])
         ELSE /\ Set(p, die(Failed(proc[p], "write " \o name), "TemplateError"))
              /\ UNCHANGED files
    /\ UNCHANGED <<lock, buildDir, dirs, vols, staging, streams, nextId>>

\* init touching .init.lock together with the first template file.
InitDefaultLockFirst(p) ==
    /\ proc[p].pc = "i_default"
    /\ files' = files \cup {"mkosi.default"}
    /\ lock' = TRUE
    /\ Set(p, [Ran(proc[p], "write mkosi.default") EXCEPT !.pc = "i_rootpw"])
    /\ UNCHANGED <<buildDir, dirs, vols, staging, streams, nextId>>

InitDefault(p) == InitWrite(p, "i_default", "mkosi.default", "i_rootpw")

InitRootpw(p) == InitWrite(p, "i_rootpw", "mkosi.rootpw", "i_lock")

\* init, lines 284-286: Path('.init.lock').touch() and its ownership; the
\* function returns after it.
InitLock(p) ==
    /\ proc[p].pc = "i_lock"
    /\ \E ok \in BOOLEAN :
         IF ok
         THEN /\ lock' = TRUE
              /\ Set(p, Exited(Ran(proc[p], "touch .init.lock"), 0, "none"))
         ELSE /\ Set(p, die(Failed(proc[p], "touch .init.lock"), "TemplateError"))
              /\ UNCHANGED lock
    /\ UNCHANGED <<buildDir, dirs, files, vols, staging, streams, nextId>>

----------------------------------------------------------------------------
\* info, summary, compose

\* mkimg info: preflight_checks comes first.
InvokeInfo(p) ==
    /\ proc[p].pc = "idle"
    /\ Set(p, Started("info", "n_preflight"))
    /\ UNCHANGED <<fs, nextId>>

\* info, lines 296-300: os.listdir of build, streams and services; a missing
\* directory raises FileNotFoundError, which nothing catches.
InfoList(p) ==
    /\ proc[p].pc = "n_list"
    /\ IF buildDir /\ {"streams", "services"} \subseteq dirs
       THEN Set(p, Exited(Returned(proc[p]), 0, "none"))
       ELSE Set(p, crash(Returned(proc[p])))
    /\ UNCHANGED <<fs, nextId>>

\* mkimg summary: preflight_checks comes first.
InvokeSummary(p) ==
    /\ proc[p].pc = "idle"
    /\ Set(p, Started("summary", "s_preflight"))
    /\ UNCHANGED <<fs, nextId>>

\* summary, lines 314-323: report check_init, run `mkosi summary`; its return
\* code is returned, not inspected.
SummaryMkosi(p) ==
    /\ proc[p].pc = "s_mkosi"
    /\ \E rc \in RunOutcomes :
         LET r == Outcome(Returned(proc[p]), "mkosi summary", rc)
         IN IF rc = "oserror" THEN Set(p, crash(r)) ELSE Set(p, Exited(r, 0, "none"))
    /\ UNCHANGED <<fs, nextId>>

\* mkimg compose: paruse_args falls through, nothing is done.
InvokeCompose(p) ==
    /\ proc[p].pc = "idle"
    /\ Set(p, Exited(Started("compose", "done"), 0, "none"))
    /\ UNCHANGED <<fs, nextId>>

----------------------------------------------------------------------------
\* clean, destroy

\* The entries os.listdir('build') returns.
listBuild == {i \in Ids : vols[i].kind # "absent"}

IsSubvol(i) == vols[i].kind \in {"rw", "ro"}

\* clean(destroy), lines 174-181 and 202-203: check_root, os.listdir('build');
\* FileNotFoundError ends in die('No files found to remove').
InvokeClean(p, destroy) ==
    /\ proc[p].pc = "idle"
    /\ \E root \in BOOLEAN :
         LET v == IF destroy THEN "destroy" ELSE "clean"
             r == [Started(v, "c_vols") EXCEPT !.destroy = destroy, !.todo = listBuild]
         IN IF ~root THEN Set(p, die([r EXCEPT !.todo = {}], "PrivilegeRequired"))
            ELSE IF ~buildDir THEN Set(p, die([r EXCEPT !.todo = {}], "NoFiles"))
            ELSE IF destroy THEN Set(p, [r EXCEPT !.pc = "d_files", !.idx = 1])
            ELSE IF listBuild = {} THEN Set(p, Exited(r, 0, "none"))
            ELSE Set(p, r)
    /\ UNCHANGED <<fs, nextId>>

\* destroy that removes the two mkosi files and leaves .init.lock in place.
CleanFilesKeepLock(p) ==
    /\ proc[p].pc = "d_files"
    /\ LET f == myfiles[proc[p].idx]
           there == IF f = ".init.lock" THEN lock ELSE f \in files
           next == IF proc[p].idx = Len(myfiles)
                   THEN [proc[p] EXCEPT !.pc = "d_dirs", !.idx = 1]
                   ELSE [proc[p] EXCEPT !.idx = @ + 1]
       IN IF there
          THEN /\ files' = files \ {f}
               /\ Set(p, Ran(next, "remove " \o f))
          ELSE /\ Set(p, die(Failed(proc[p], "remove " \o f), "NoFiles"))
               /\ UNCHANGED files
    /\ UNCHANGED <<lock, buildDir, dirs, vols, staging, streams, nextId>>

\* clean, lines 185-186: os.remove of mkosi.default, mkosi.rootpw, .init.lock,
\* in this order; a missing file ends in die.
CleanFiles(p) ==
    /\ proc[p].pc = "d_files"
    /\ LET f == myfiles[proc[p].idx]
           there == IF f = ".init.lock" THEN lock ELSE f \in files
           next == IF proc[p].idx = Len(myfiles)
                   THEN [proc[p] EXCEPT !.pc = "d_dirs", !.idx = 1]
                   ELSE [proc[p] EXCEPT !.idx = @ + 1]
       IN IF there
          THEN /\ lock' = (lock /\ f # ".init.lock")
               /\ files' = files \ {f}
               /\ Set(p, Ran(next, "remove " \o f))
          ELSE /\ Set(p, die(Failed(proc[p], "remove " \o f), "NoFiles"))
               /\ UNCHANGED <<lock, files>>
    /\ UNCHANGED <<buildDir, dirs, vols, staging, streams, nextId>>

\* clean, lines 188-189: shutil.rmtree of streams, services, buildroot, with
\* what they hold; a missing directory ends in die.
CleanDirs(p) ==
    /\ proc[p].pc = "d_dirs"
    /\ LET d == mydirs[proc[p].idx]
           next == IF proc[p].idx < Len(mydirs) THEN [proc[p] EXCEPT !.idx = @ + 1]
                   ELSE IF proc[p].todo = {} THEN [proc[p] EXCEPT !.pc = "d_rmbuild", !.idx = 0]
                   ELSE [proc[p] EXCEPT !.pc = "c_vols", !.idx = 0]
       IN IF d \in dirs
          THEN /\ dirs' = dirs \ {d}
               /\ streams' = IF d = "streams" THEN [i \in Ids |-> "absent"] ELSE streams
               /\ staging' = IF d = "buildroot" THEN NoTree ELSE staging
               /\ Set(p, Ran(next, "rmtree " \o d))
          ELSE /\ Set(p, die(Failed(proc[p], "rmtree " \o d), "NoFiles"))
               /\ UNCHANGED <<dirs, streams, staging>>
    /\ UNCHANGED <<lock, buildDir, files, vols, nextId>>

\* clean whose delete first makes the volume writable, so that a delete that
\* then fails leaves a thawed volume behind.
CleanVolsUnfreeze(p) ==
    /\ proc[p].pc = "c_vols"
    /\ \E v \in proc[p].todo, rc \in RunOutcomes :
         /\ rc = "zero" => IsSubvol(v)
         /\ LET r == [Outcome(proc[p], "btrfs delete", rc) EXCEPT !.todo = @ \ {v}]
            IN /\ vols' = IF rc = "zero" THEN [vols EXCEPT ![v] = AbsentVol]
                          ELSE IF vols[v].kind = "ro" THEN [vols EXCEPT ![v].kind = "rw"]
                          ELSE vols
               /\ Set(p, IF rc = "oserror" THEN die(r, "BtrfsError")
                          ELSE IF r.todo # {} THEN r
                          ELSE IF r.destroy THEN [r EXCEPT !.pc = "d_rmbuild"]
                          ELSE Exited(r, 0, "none"))
    /\ UNCHANGED <<lock, buildDir, dirs, files, staging, streams, nextId>>

\* clean that removes the artifact of a volume together with the volume.
CleanVolsAndStreams(p) ==
    /\ proc[p].pc = "c_vols"
    /\ \E v \in proc[p].todo, rc \in RunOutcomes :
         /\ rc = "zero" => IsSubvol(v)
         /\ LET r == [Outcome(proc[p], "btrfs delete", rc) EXCEPT !.todo = @ \ {v}]
            IN /\ vols' = IF rc = "zero" THEN [vols EXCEPT ![v] = AbsentVol] ELSE vols
               /\ streams' = IF rc = "zero" THEN [streams EXCEPT ![v] = "absent"] ELSE streams
               /\ Set(p, IF rc = "oserror" THEN die(r, "BtrfsError")
                          ELSE IF r.todo # {} THEN r
                          ELSE IF r.destroy THEN [r EXCEPT !.pc = "d_rmbuild"]
                          ELSE Exited(r, 0, "none"))
    /\ UNCHANGED <<lock, buildDir, dirs, files, staging, nextId>>

\* clean, lines 192-193 and 205-207: one `btrfs subvol delete build/<volume>`
\* per listed entry, in listing order (any order); the return code is not
\* looked at.  Only a subvolume can be deleted.
CleanVols(p) ==
    /\ proc[p].pc = "c_vols"
    /\ \E v \in proc[p].todo, rc \in RunOutcomes :
         /\ rc = "zero" => IsSubvol(v)
         /\ LET r == [Outcome(proc[p], "btrfs delete", rc) EXCEPT !.todo = @ \ {v}]
            IN /\ vols' = IF rc = "zero" THEN [vols EXCEPT ![v] = AbsentVol] ELSE vols
               /\ Set(p, IF rc = "oserror" THEN die(r, "BtrfsError")
                          ELSE IF r.todo # {} THEN r
                          ELSE IF r.destroy THEN [r EXCEPT !.pc = "d_rmbuild"]
                          ELSE Exited(r, 0, "none"))
    /\ UNCHANGED <<lock, buildDir, dirs, files, staging, streams, nextId>>

\* clean, line 194: shutil.rmtree('build').  A missing build/ ends in die.
\* Entries the deletes left behind are removed with it when they are plain
\* directories; a read-only subvolume cannot be unlinked (an OSError nothing
\* catches), a writable one only where the kernel lets rmdir remove it.
CleanRmBuild(p) ==
    /\ proc[p].pc = "d_rmbuild"
    /\ IF ~buildDir
       THEN /\ Set(p, die(Failed(proc[p], "rmtree build"), "NoFiles"))
            /\ UNCHANGED <<buildDir, vols>>
       ELSE \E ok \in BOOLEAN :
              /\ ok => \A i \in Ids : vols[i].kind # "ro"
              /\ ~ok => \E i \in Ids : IsSubvol(i)
              /\ IF ok
                 THEN /\ buildDir' = FALSE
                      /\ vols' = [i \in Ids |-> AbsentVol]
                      /\ Set(p, Exited(Ran(proc[p], "rmtree build"), 0, "none"))
                 ELSE /\ Set(p, crash(Failed(proc[p], "rmtree build")))
                      /\ UNCHANGED <<buildDir, vols>>
    /\ UNCHANGED <<lock, dirs, files, staging, streams, nextId>>

----------------------------------------------------------------------------
\* build

\* gen_cid: a fresh 128-bit token.  Tokens are opaque and never repeat, so the
\* k-th token drawn is called k.
gen_cid == nextId

\* build without the check_init test of line 397.
InvokeBuildNoLockCheck(p) ==
    /\ proc[p].pc = "idle"
    /\ \E root \in BOOLEAN :
         LET r == Started("build", "b_create")
         IN IF ~root
            THEN /\ Set(p, die(r, "PrivilegeRequired"))
                 /\ UNCHANGED nextId
            ELSE /\ nextId <= MaxBuilds
                 /\ Set(p, [r EXCEPT !.mycid = gen_cid])
                 /\ nextId' = nextId + 1
    /\ UNCHANGED fs

\* mkimg build, lines 397-405: check_init, check_root, gen_cid and the path
\* names derived from it.  No preflight_checks call is made.
InvokeBuild(p) ==
    /\ proc[p].pc = "idle"
    /\ \E root \in BOOLEAN :
         LET r == Started("build", "b_create")
         IN IF ~check_init
            THEN /\ Set(p, die(r, "NotInitialized"))
                 /\ UNCHANGED nextId
            ELSE IF ~root
            THEN /\ Set(p, die(r, "PrivilegeRequired"))
                 /\ UNCHANGED nextId
            ELSE /\ nextId <= MaxBuilds
                 /\ Set(p, [r EXCEPT !.mycid = gen_cid])
                 /\ nextId' = nextId + 1
    /\ UNCHANGED fs

\* build, line 406: btrfs_do(myvolume), i.e. `btrfs subvol create build/<id>`.
\* It can only succeed inside an existing build/; the CompletedProcess that
\* btrfs_do returns is dropped.
BuildCreate(p) ==
    /\ proc[p].pc = "b_create"
    /\ \E rc \in RunOutcomes :
         LET id == proc[p].mycid
             r == Outcome(proc[p], "create", rc)
         IN /\ rc = "zero" => buildDir /\ vols[id].kind = "absent"
            /\ vols' = IF rc = "zero"
                       THEN [vols EXCEPT ![id] = [AbsentVol EXCEPT !.kind = "rw"]]
                       ELSE vols
            /\ Set(p, IF rc = "oserror" THEN die(r, "BtrfsError")
                       ELSE [r EXCEPT !.pc = "b_mkosi"])
    /\ UNCHANGED <<lock, buildDir, dirs, files, staging, streams, nextId>>

\* build, line 407: subprocess.run('mkosi', ...).  The image builder is a black
\* box: when it exits 0 it has written a fresh buildroot/image, otherwise it
\* has left buildroot/ as it was.  Its return code is dropped; the OSError of a
\* missing binary is not caught.
BuildMkosi(p) ==
    /\ proc[p].pc = "b_mkosi"
    /\ \E rc \in RunOutcomes :
         LET r == Outcome(proc[p], "mkosi", rc)
         IN /\ rc = "zero" => "buildroot" \in dirs
            /\ staging' = IF rc = "zero" THEN [present |-> TRUE, osrel |-> <<>>] ELSE staging
            /\ Set(p, IF rc = "oserror" THEN crash(r) ELSE [r EXCEPT !.pc = "b_stamp"])
    /\ UNCHANGED <<lock, buildDir, dirs, files, vols, streams, nextId>>

\* build that leaves etc/os-release as the image builder wrote it.
BuildStampNone(p) ==
    /\ proc[p].pc = "b_stamp"
    /\ IF staging.present
       THEN Set(p, [Ran(proc[p], "stamp") EXCEPT !.pc = "b_copy"])
       ELSE Set(p, crash(Failed(proc[p], "stamp")))
    /\ UNCHANGED <<fs, nextId>>

\* build, lines 412-413: append BUILD_ID="<id>" to buildroot/image/etc/os-release.
\* open(..., 'a') raises FileNotFoundError when the tree is not there.
BuildStamp(p) ==
    /\ proc[p].pc = "b_stamp"
    /\ IF staging.present
       THEN /\ staging' = [staging EXCEPT !.osrel = Append(@, proc[p].mycid)]
            /\ Set(p, [Ran(proc[p], "stamp") EXCEPT !.pc = "b_copy"])
       ELSE /\ Set(p, crash(Failed(proc[p], "stamp")))
            /\ UNCHANGED staging
    /\ UNCHANGED <<lock, buildDir, dirs, files, vols, streams, nextId>>

\* build, line 416: copy_tree(mybuildroot, myvolume, preserve_symlinks=1,
\* update=1).  A source that is no directory raises before anything is written.
\* Otherwise mkpath creates a missing destination as a plain directory, and
\* the files are copied one by one; an error on the way leaves what was copied
\* so far.  Nothing can be written into a read-only subvolume.
BuildCopy(p) ==
    /\ proc[p].pc = "b_copy"
    /\ LET id == proc[p].mycid
           kind == IF vols[id].kind = "absent" THEN "dir" ELSE vols[id].kind
       IN IF ~staging.present
          THEN /\ Set(p, crash(Failed(proc[p], "copy")))
               /\ UNCHANGED <<buildDir, vols>>
          ELSE \E out \in {"ok", "partial", "error"} :
                 /\ out # "error" => vols[id].kind # "ro"
                 /\ CASE out = "ok" ->
                          /\ vols' = [vols EXCEPT ![id] = [kind |-> kind, fill |-> "full",
                                                            osrel |-> staging.osrel]]
                          /\ buildDir' = TRUE
                          /\ Set(p, [Ran(proc[p], "copy") EXCEPT !.pc = "b_rmtree"])
                      [] out = "partial" ->
                          /\ vols' = [vols EXCEPT ![id] = [kind |-> kind, fill |-> "partial",
                                                            osrel |-> <<>>]]
                          /\ buildDir' = TRUE
                          /\ Set(p, crash(Failed(Ran(proc[p], "copy"), "copy")))
                      [] out = "error" ->
                          /\ Set(p, crash(Failed(proc[p], "copy")))
                          /\ UNCHANGED <<buildDir, vols>>
    /\ UNCHANGED <<lock, dirs, files, staging, streams, nextId>>

\* build, line 417: shutil.rmtree('buildroot/image').
BuildRmtree(p) ==
    /\ proc[p].pc = "b_rmtree"
    /\ IF staging.present
       THEN /\ staging' = NoTree
            /\ Set(p, [Ran(proc[p], "rmtree image") EXCEPT !.pc = "b_freeze"])
       ELSE /\ Set(p, crash(Failed(proc[p], "rmtree image")))
            /\ UNCHANGED staging
    /\ UNCHANGED <<lock, buildDir, dirs, files, vols, streams, nextId>>

\* build, line 421: btrfs_do(myvolume, 'property', 'set', 'ro', 'true').  Only
\* a subvolume can be set read-only; the return code is dropped.
BuildFreeze(p) ==
    /\ proc[p].pc = "b_freeze"
    /\ \E rc \in RunOutcomes :
         LET id == proc[p].mycid
             r == Outcome(proc[p], "freeze", rc)
         IN /\ rc = "zero" => IsSubvol(id)
            /\ vols' = IF rc = "zero" THEN [vols EXCEPT ![id].kind = "ro"] ELSE vols
            /\ Set(p, IF rc = "oserror" THEN die(r, "BtrfsError")
                       ELSE [r EXCEPT !.pc = "b_send"])
    /\ UNCHANGED <<lock, buildDir, dirs, files, staging, streams, nextId>>

\* compress_subvol, lines 354-360: Popen of `btrfs send <volume>` and of
\* `zstd -v -o <dest>` reading from it.  An OSError of either Popen ends in
\* die('Error in subvolume compress').  Once started, zstd opens <dest> for
\* writing, which needs streams/ to exist.
BuildSend(p) ==
    /\ proc[p].pc = "b_send"
    /\ \E started \in {"both", "send only", "none"} :
         LET id == proc[p].mycid
         IN CASE started = "none" ->
                   /\ Set(p, die(Failed(proc[p], "send"), "CompressError"))
                   /\ UNCHANGED streams
              [] started = "send only" ->
                   /\ Set(p, die(Failed(Ran(proc[p], "send"), "zstd"), "CompressError"))
                   /\ UNCHANGED streams
              [] started = "both" ->
                   /\ Set(p, [Ran(Ran(proc[p], "send"), "zstd") EXCEPT !.pc = "b_wait"])
                   /\ streams' = IF "streams" \in dirs
                                  THEN [streams EXCEPT ![id] = "partial"]
                                  ELSE streams
    /\ UNCHANGED <<lock, buildDir, dirs, files, vols, staging, nextId>>

\* compress_subvol, lines 361-365, and build, line 424: communicate() waits
\* for zstd; neither exit status is read.  `btrfs send` succeeds only on a
\* read-only subvolume.  zstd compresses whatever reached it before end of
\* input: the whole stream, or a truncated one when send failed.  A failing
\* zstd may or may not remove what it wrote.  set_ownership(dest) then raises
\* FileNotFoundError when there is no file (die), KeyError without SUDO_UID.
BuildWait(p) ==
    /\ proc[p].pc = "b_wait"
    /\ \E sendOk \in BOOLEAN, zstdOk \in BOOLEAN, left \in {"absent", "partial"},
          sudo \in BOOLEAN :
         LET id == proc[p].mycid
             r1 == IF sendOk THEN proc[p] ELSE Failed(proc[p], "send")
             r == IF zstdOk THEN r1 ELSE Failed(r1, "zstd")
             file == IF ~zstdOk THEN left ELSE IF sendOk THEN "complete" ELSE "partial"
             own == set_ownership(file # "absent", sudo)
         IN /\ sendOk => vols[id].kind = "ro"
            /\ zstdOk => "streams" \in dirs /\ left = "absent"
            /\ file # "absent" => "streams" \in dirs
            /\ streams' = [streams EXCEPT ![id] = file]
            /\ Set(p, CASE own = "KeyError" -> crash(r)
                        [] own = "OSError" -> die(r, "CompressError")
                        [] own = "ok" -> Exited(r, 0, "none"))
    /\ UNCHANGED <<lock, buildDir, dirs, files, vols, staging, nextId>>

----------------------------------------------------------------------------
\* The operator.

\* A running verb is interrupted (kill, power loss): the process is gone
\* without an exit status of its own, and the paths stay as its last completed
\* step left them.
Interrupt(p) ==
    /\ proc[p].pc \notin {"idle", "done"}
    /\ Set(p, IdleProc)
    /\ UNCHANGED <<fs, nextId>>

\* The shell takes the exit status; the process table entry is free again.
Reap(p) ==
    /\ proc[p].pc = "done"
    /\ Set(p, IdleProc)
    /\ UNCHANGED <<fs, nextId>>

\* The verbs of MKIMG_COMMANDS as paruse_args dispatches them.
Invoke(p) ==
    \/ InvokeInit(p) \/ InvokeInfo(p) \/ InvokeSummary(p) \/ InvokeCompose(p)
    \/ InvokeClean(p, FALSE) \/ InvokeClean(p, TRUE) \/ InvokeBuild(p)

\* One step of the verb a process is in.
Step(p) ==
    \/ Preflight(p) \/ InitBuild(p) \/ InitDirs(p)
    \/ InitDefault(p) \/ InitRootpw(p) \/ InitLock(p)
    \/ InfoList(p) \/ SummaryMkosi(p)
    \/ CleanFiles(p) \/ CleanDirs(p) \/ CleanVols(p) \/ CleanRmBuild(p)
    \/ BuildCreate(p) \/ BuildMkosi(p) \/ BuildStamp(p) \/ BuildCopy(p)
    \/ BuildRmtree(p) \/ BuildFreeze(p) \/ BuildSend(p) \/ BuildWait(p)

Next ==
    \E p \in Procs :
        \/ Serial(p) /\ Invoke(p)
        \/ Step(p)
        \/ Interrupt(p)
        \/ Reap(p)

\* mkimg run from one shell, one command after the other.
Spec == Init /\ [][Next]_vars

\* The steps of init and of build.
InitStep(p) ==
    \/ Preflight(p) \/ InitBuild(p) \/ InitDirs(p)
    \/ InitDefault(p) \/ InitRootpw(p) \/ InitLock(p)

BuildStep(p) ==
    \/ BuildCreate(p) \/ BuildMkosi(p) \/ BuildStamp(p) \/ BuildCopy(p)
    \/ BuildRmtree(p) \/ BuildFreeze(p) \/ BuildSend(p) \/ BuildWait(p)

\* Two shells on one workspace: the first initializes it, both run builds.
\* mkimg takes no lock of its own, so nothing orders the steps of one build
\* against those of the other.
NextConcurrent ==
    \E p \in Procs :
        \/ Serial(p) /\ InvokeInit(p)
        \/ InitStep(p)
        \/ InvokeBuild(p)
        \/ BuildStep(p)
        \/ Reap(p)

SpecConcurrent == Init /\ [][NextConcurrent]_vars

----------------------------------------------------------------------------
\* Properties.

InitPcs == {"i_preflight", "i_build", "i_dirs", "i_default", "i_rootpw", "i_lock"}

\* p leaves the shell prompt with verb v in this step.
Invoked(p, v) == proc[p].pc = "idle" /\ proc'[p].pc # "idle" /\ proc'[p].verb = v

\* C1: init on a workspace whose lock marker exists fails with a non-zero exit
\* (AlreadyInitialized; PrivilegeRequired when check_root, which runs first,
\* finds no root) in its first step, runs no command and leaves every managed
\* path, volume, artifact and the lock marker as they were.
C1_InitOnInitializedFailsUnchanged ==
    [][\A p \in Procs :
         Invoked(p, "init") /\ lock =>
            /\ fs' = fs
            /\ nextId' = nextId
            /\ proc'[p].pc = "done"
            /\ proc'[p].exit # 0
            /\ proc'[p].err \in {"AlreadyInitialized", "PrivilegeRequired"}
            /\ proc'[p].ran = {} /\ proc'[p].failed = {}]_vars

C1_Witness ==
    \E p \in Procs :
        /\ proc[p].verb = "init" /\ proc[p].err = "AlreadyInitialized"
        /\ lock /\ \E i \in Ids : vols[i].kind = "ro"

C3_GateFailsOnAnyFailedCheck ==
    \A p \in Procs :
        proc[p].pfObs.seen /\ proc[p].pc # "done" =>
            proc[p].pfObs.onBtrfs /\ proc[p].pfObs.bins = Apps

\* C4: init, build, info and summary have passed the preflight gate before they
\* run any command or change any path.
C4_PreflightBeforeAnyAction ==
    \A p \in Procs :
        /\ proc[p].verb \in {"init", "build", "info", "summary"}
        /\ proc[p].ran \cup proc[p].failed # {}
        => proc[p].gate = "passed"

\* C5: build on a workspace without lock marker fails with NotInitialized in its
\* first step: no build identity is drawn, no command is run, and no volume,
\* staging tree or artifact is created or changed.
C5_BuildUninitializedFailsUnchanged ==
    [][\A p \in Procs :
         Invoked(p, "build") /\ ~lock =>
            /\ fs' = fs
            /\ nextId' = nextId
            /\ proc'[p].pc = "done"
            /\ proc'[p].exit # 0
            /\ proc'[p].err = "NotInitialized"
            /\ proc'[p].mycid = 0
            /\ proc'[p].ran = {} /\ proc'[p].failed = {}]_vars

C5_Witness ==
    \E p \in Procs :
        /\ proc[p].verb = "build" /\ proc[p].err = "NotInitialized"
        /\ buildDir /\ ~lock

\* C6: when the create or the set-read-only of build/<id> fails, no later step
\* of the pipeline is run and build exits non-zero.
C6_VolumeOpFailureAborts ==
    \A p \in Procs :
        proc[p].verb = "build" =>
            /\ "create" \in proc[p].failed =>
                 proc[p].ran \cap {"mkosi", "stamp", "copy", "rmtree image",
                                   "freeze", "send", "zstd"} = {}
            /\ "freeze" \in proc[p].failed =>
                 proc[p].ran \cap {"send", "zstd"} = {}
            /\ proc[p].failed \cap {"create", "freeze"} # {} /\ proc[p].pc = "done"
                 => proc[p].exit # 0

\* C7: when the image builder fails, build stops there: the volume stays, the
\* staging tree is neither stamped, copied nor removed, nothing is frozen or
\* compressed, and build exits non-zero.
C7_ImageBuilderFailureAborts ==
    \A p \in Procs :
        proc[p].verb = "build" /\ "mkosi" \in proc[p].failed =>
            /\ proc[p].ran \cap {"stamp", "copy", "rmtree image", "freeze",
                                 "send", "zstd"} = {}
            /\ proc[p].pc = "done" => proc[p].exit # 0

\* C8: a build whose materialization failed leaves the volume build/<id>
\* present, has not set it read-only and leaves no artifact.
C8_MaterializationFailureLeavesVolume ==
    \A p \in Procs :
        proc[p].verb = "build" /\ "copy" \in proc[p].failed =>
            /\ IsSubvol(proc[p].mycid)
            /\ vols[proc[p].mycid].kind # "ro"
            /\ "freeze" \notin proc[p].ran
            /\ streams[proc[p].mycid] = "absent"

\* C9: a build in which send or the compressor failed (every step before
\* them having succeeded) ends with no file at streams/<id>.sendstream.zst and
\* with a non-zero exit.
C9_CompressFailureLeavesNoArtifact ==
    \A p \in Procs :
        /\ proc[p].verb = "build" /\ proc[p].pc = "done"
        /\ proc[p].failed # {} /\ proc[p].failed \subseteq {"send", "zstd"}
        => streams[proc[p].mycid] = "absent" /\ proc[p].exit # 0

\* C10: materialization starts only on an existing volume build/<id>, and send
\* starts only on an existing, read-only volume build/<id>.
C10_PipelineOrderRespected ==
    [][\A p \in Procs :
         proc[p].verb = "build" =>
            /\ "copy" \notin proc[p].ran /\ "copy" \in proc'[p].ran
                 => IsSubvol(proc[p].mycid)
            /\ "send" \notin proc[p].ran /\ "send" \in proc'[p].ran
                 => vols[proc[p].mycid].kind = "ro"]_vars

\* C11: once build/<id> is read-only, no step of init, build, clean or destroy
\* writes its contents or makes it writable again; the only change it can still
\* undergo is its deletion by a clean or a destroy.
C11_FrozenIsTerminal ==
    [][\A i \in Ids :
         vols[i].kind = "ro" =>
            \/ vols'[i] = vols[i]
            \/ /\ vols'[i] = AbsentVol
               /\ \E p \in Procs : /\ proc[p].verb \in {"clean", "destroy"}
                                   /\ proc[p].pc = "c_vols"
                                   /\ i \in proc[p].todo]_vars

\* One frozen volume was deleted by a clean that left the other one, frozen
\* by an earlier build, in place.
C11_Witness ==
    \E p \in Procs, i \in Ids, j \in Ids :
        /\ proc[p].verb = "clean" /\ "btrfs delete" \in proc[p].ran
        /\ vols[i].kind = "ro" /\ vols[j].kind = "absent" /\ j < nextId
        /\ streams[j] = "complete"

\* The steps of the build pipeline, lines 406-423.
BuildSteps == {"create", "mkosi", "stamp", "copy", "rmtree image", "freeze", "send", "zstd"}

\* C12: the identity a build draws names nothing yet; no step of a build
\* changes another volume or artifact, the lock marker, the managed directories
\* or the configuration; and a build in which every step succeeded has run the
\* whole pipeline and ends with build/<id> frozen, fully populated and carrying
\* the single line BUILD_ID=<id>, with streams/<id>.sendstream.zst complete and
\* with the staging tree removed.
C12_SuccessfulBuildEffect ==
    [][\A p \in Procs :
         /\ Invoked(p, "build") /\ proc'[p].mycid # 0 =>
               /\ vols[proc'[p].mycid] = AbsentVol
               /\ streams[proc'[p].mycid] = "absent"
         /\ proc[p].verb = "build" /\ proc[p].pc \notin {"idle", "done"} =>
               LET id == proc[p].mycid
               IN /\ \A j \in Ids \ {id} : vols'[j] = vols[j] /\ streams'[j] = streams[j]
                  /\ <<lock, dirs, files>>' = <<lock, dirs, files>>
                  /\ proc'[p].pc = "done" /\ proc'[p].exit = 0 /\ proc'[p].failed = {} =>
                        /\ proc'[p].ran = BuildSteps
                        /\ buildDir'
                        /\ vols'[id] = [kind |-> "ro", fill |-> "full", osrel |-> <<id>>]
                        /\ streams'[id] = "complete"
                        /\ staging' = NoTree]_vars

\* The second build of the workspace has succeeded; the volume and the
\* artifact of the first are in place.
C12_Witness ==
    \E p \in Procs :
        /\ proc[p].verb = "build" /\ proc[p].pc = "done"
        /\ proc[p].exit = 0 /\ proc[p].failed = {}
        /\ proc[p].mycid = 2
        /\ vols[1].kind = "ro" /\ streams[1] = "complete"

\* C13: clean (not destroy) on an initialized workspace changes nothing but
\* volumes it listed in build/, and those only by deleting them: the lock
\* marker, build/, the managed directories, the artifacts, the staging tree and
\* the two files stay as they are.  It ends with exit 0 unless btrfs could not
\* be executed, and when no delete failed, build/ is empty afterwards.  With no
\* volume listed it succeeds at once and changes nothing.
C13_CleanRemovesOnlyVolumes ==
    [][\A p \in Procs :
         /\ Invoked(p, "clean") /\ lock =>
               /\ fs' = fs
               /\ listBuild = {} =>
                     /\ proc'[p].pc = "done"
                     /\ proc'[p].exit = 0 \/ proc'[p].err = "PrivilegeRequired"
                     /\ proc'[p].ran = {} /\ proc'[p].failed = {}
         /\ proc[p].verb = "clean" /\ proc[p].pc = "c_vols" /\ lock =>
               /\ <<lock, buildDir, dirs, files, staging, streams>>'
                     = <<lock, buildDir, dirs, files, staging, streams>>
               /\ \A i \in Ids : \/ vols'[i] = vols[i]
                                  \/ (i \in proc[p].todo /\ vols'[i] = AbsentVol)
               /\ proc'[p].pc = "done" =>
                     proc'[p].exit = 0 \/ proc'[p].err = "BtrfsError"
               /\ proc'[p].pc = "done" /\ proc'[p].failed = {} =>
                     /\ proc'[p].exit = 0
                     /\ \A i \in Ids : vols'[i] = AbsentVol]_vars

\* A clean has deleted the volumes of two completed builds; their artifacts
\* and the lock marker are still there.
C13_Witness ==
    \E p \in Procs :
        /\ proc[p].verb = "clean" /\ proc[p].pc = "done"
        /\ proc[p].exit = 0 /\ proc[p].failed = {}
        /\ "btrfs delete" \in proc[p].ran
        /\ \A i \in Ids : vols[i] = AbsentVol
        /\ streams[1] = "complete" /\ streams[2] = "complete"
        /\ lock /\ buildDir

DestroyPcs == {"d_files", "d_dirs", "c_vols", "d_rmbuild"}

\* No managed path exists: the workspace as it is before the first init.
Fresh ==
    /\ ~lock /\ ~buildDir /\ dirs = {} /\ files = {}
    /\ \A i \in Ids : vols[i] = AbsentVol /\ streams[i] = "absent"
    /\ staging = NoTree

\* The layout a completed init leaves.
Layout ==
    /\ lock /\ buildDir
    /\ dirs = {mydirs[k] : k \in 1..Len(mydirs)}
    /\ files = {"mkosi.default", "mkosi.rootpw"}

\* Every path the destroy of p has not removed yet is there.
Remaining(p) ==
    LET r == proc[p]
        fl == IF r.pc = "d_files" THEN {myfiles[k] : k \in r.idx..Len(myfiles)} ELSE {}
        dl == IF r.pc = "d_files" THEN {mydirs[k] : k \in 1..Len(mydirs)}
              ELSE IF r.pc = "d_dirs" THEN {mydirs[k] : k \in r.idx..Len(mydirs)}
              ELSE {}
    IN /\ \A f \in fl : IF f = ".init.lock" THEN lock ELSE f \in files
       /\ dl \subseteq dirs
       /\ buildDir

\* C14: destroy on an initialized workspace (the layout of init, with whatever
\* volumes, artifacts and staging tree) goes through all its removals, each
\* finding what it has to remove, and fails only when a `btrfs subvol delete`
\* failed; a destroy that exits 0 leaves no managed path, volume or artifact:
\* the workspace is as before the first init.  An init that completes leaves
\* the layout of init and touches no volume, artifact or staging tree, so init
\* after destroy gives what init on a fresh workspace gives.
C14_DestroyThenInitAsFresh ==
    [][\A p \in Procs :
         CASE proc[p].pc = "idle" ->
                Invoked(p, "destroy") /\ Layout =>
                   /\ fs' = fs
                   /\ proc'[p].pc = "done" => proc'[p].err = "PrivilegeRequired"
                   /\ proc'[p].pc # "done" => proc'[p].pc = "d_files" /\ Remaining(p)'
           [] proc[p].pc \in DestroyPcs ->
                proc[p].verb = "destroy" =>
                   /\ Remaining(p) =>
                         /\ proc'[p].pc \in DestroyPcs => Remaining(p)'
                         /\ proc'[p].pc = "done" /\ proc'[p].exit # 0 =>
                               "btrfs delete" \in proc'[p].failed
                   /\ proc'[p].pc = "done" /\ proc'[p].exit = 0 => Fresh'
           [] proc[p].pc \in InitPcs ->
                proc[p].verb = "init" =>
                   /\ <<vols, staging, streams>>' = <<vols, staging, streams>>
                   /\ proc'[p].pc = "done" /\ proc'[p].exit = 0 => Layout'
           [] OTHER -> TRUE]_vars

\* After builds and a destroy, an init has created every part of the layout
\* anew and completed.
C14_Witness ==
    \E p \in Procs :
        /\ proc[p].verb = "init" /\ proc[p].pc = "done"
        /\ proc[p].exit = 0 /\ proc[p].failed = {}
        /\ nextId > 1
        /\ Layout
        /\ \A i \in Ids : vols[i] = AbsentVol /\ streams[i] = "absent"

\* C15: clean or destroy on a workspace that was never initialized (no managed
\* path exists) ends as a success (PrivilegeRequired apart) and changes nothing.
C15_CleanOnUninitializedSucceeds ==
    [][\A p \in Procs :
         (Invoked(p, "clean") \/ Invoked(p, "destroy")) /\ Fresh =>
            /\ fs' = fs
            /\ proc'[p].pc = "done"
            /\ proc'[p].exit = 0 \/ proc'[p].err = "PrivilegeRequired"]_vars

\* C16: an init in which the creation of the build volume, of a managed
\* directory (one that exists already included) or of a managed file failed
\* does not write the lock marker and exits non-zero.
C16_InitFailsOnCreationFailure ==
    \A p \in Procs :
        proc[p].verb = "init" /\ proc[p].failed # {} =>
            /\ ~lock
            /\ proc[p].pc = "done" => proc[p].exit # 0

BuildPcs == {"b_create", "b_mkosi", "b_stamp", "b_copy", "b_rmtree", "b_freeze",
             "b_send", "b_wait"}

\* C17: no two builds are in their pipelines at the same time.
C17_BuildsNeverInterleave ==
    \A p \in Procs, q \in Procs :
        /\ proc[p].verb = "build" /\ proc[p].pc \in BuildPcs
        /\ proc[q].verb = "build" /\ proc[q].pc \in BuildPcs
        => p = q

\* C18: whenever the lock marker exists, build/, the three managed directories
\* and the two mkosi files exist.
C18_LockImpliesLayout == lock => Layout

\* C19: as long as the lock marker is there the workspace has been initialized
\* and not been destroyed; whatever an interrupted destroy has removed of it
\* already, a destroy does not give up there with 'No files found to remove'.
C19_DestroyIsResumable ==
    \A p \in Procs :
        proc[p].verb = "destroy" /\ proc[p].pc = "done" /\ lock =>
            proc[p].err # "NoFiles"

\* C20: the os-release of every frozen volume build/<id> holds exactly one
\* BUILD_ID line, and its value is <id>.
C20_OneBuildIdPerFrozenVolume ==
    \A i \in Ids : vols[i].kind = "ro" => vols[i].osrel = <<i>>

====
